---- MODULE Spec2Model ----
(***************************************************************************)
(* mt32-pi: the MIDI monitor (envelope / level engine, CMIDIMonitor) and   *)
(* the overlay state machine of the LCD user interface (CUserInterface).   *)
(*                                                                         *)
(* Numbers.  The program computes levels in single precision floats; the   *)
(* model computes them exactly, as integer numerators over the common      *)
(* denominator LevelOne (the value 1.0f).  Envelopes are numerators over   *)
(* EnvOne.  Ticks are unsigned integers; the model keeps their modular     *)
(* subtraction with the width scaled down to the values 0..MaxTick.        *)
(***************************************************************************)
EXTENDS Integers, Sequences, FiniteSets, TLC

----------------------------------------------------------------------------
(* Bounds of the model *)

\* The clock runs over the ticks 0..MaxTick.
MaxTick == 5
\* At most MaxMessages short messages are handled in one behaviour.
MaxMessages == 2
\* At most MaxQueries level queries are made in one behaviour.
MaxQueries == 2
\* Notes tracked per channel (128 in the program).  A data byte ranges over
\* twice the table size, as 0..255 does over the 128 entries of the program.
NoteCount == 2

\* The user interface's clock runs over the ticks 0..MaxUITick.
MaxUITick == 12
\* With a single spinner message shown, the clock runs over 0..MaxSpinnerTick,
\* far enough for the spinner to go round once.
MaxSpinnerTick == 30
\* At most MaxTriggers messages and images are shown in one behaviour.
MaxTriggers == 2
\* Time constants of the user interface, in milliseconds, scaled down to the
\* clock of the model (3000 and 32 in the program, ui.h).
SystemMessageDisplayTimeMillis == 3
SystemMessageSpinnerTimeMillis == 1

----------------------------------------------------------------------------
(* Program constants *)

ChannelCount == 16
PercussionChannel == 9

DefaultVolume == 100
DefaultPan == 64
DefaultExpression == 127

StatusNoteOff == 128
StatusNoteOn == 144
StatusControlChange == 176
StatusSystemReset == 255

CCVolume == 7
CCPan == 10
CCExpression == 11
CCAllSoundOff == 120
CCResetAllControllers == 121
CCAllNotesOff == 123
CCOmniOff == 124
CCOmniOn == 125
CCMonoOn == 126
CCMonoOff == 127

\* The divisor of velocity, volume and expression (127.0f).
DataMax == 127

\* Time constants of the monitor, in milliseconds (scaled), and the clock
\* rate in ticks per millisecond (scaled).
DecayReleaseTimeMillis == 2
PeakHoldTimeMillis == 1
PeakFalloffTimeMillis == 2
TicksPerMilli == 2

----------------------------------------------------------------------------
(* Number representation *)

\* 1.0f as an envelope value.
EnvOne == DecayReleaseTimeMillis * DecayReleaseTimeMillis
\* 1.0f as a level.
LevelOne == EnvOne * DataMax * DataMax * DataMax * PeakFalloffTimeMillis

Channels == 0..(ChannelCount - 1)
Notes == 0..(NoteCount - 1)
Ticks == 0..MaxTick
TickModulus == MaxTick + 1

\* Unsigned subtraction of two tick values.
TickDiff(a, b) == (a - b) % TickModulus

Max(a, b) == IF a > b THEN a ELSE b
Min(a, b) == IF a < b THEN a ELSE b
Clamp(v, lo, hi) == IF v < lo THEN lo ELSE IF v > hi THEN hi ELSE v
TicksToMillis(nTicks) == nTicks \div TicksPerMilli

\* The largest element of a non-empty finite set of integers.
SetMax(S) == CHOOSE y \in S : \A z \in S : z <= y

\* The element of a one-element set (binds a value that is used several times).
The(S) == CHOOSE x \in S : TRUE

----------------------------------------------------------------------------
(* State *)

VARIABLES
    m_State,        \* [channel -> [Notes, nVolume, nPan, nExpression]]
    m_PeakLevels,   \* [channel -> level]
    m_PeakTimes,    \* [channel -> tick]
    clock,          \* CTimer::GetClockTicks()
    pOutLevels,     \* levels returned by the last GetChannelLevels
    pOutPeaks,      \* peaks returned by the last GetChannelLevels
    lastOp,         \* the last step: "init", "tick", or the call made
    lastMsg,        \* the nMessage of the last step, 0 if it had none
    nMessages,      \* messages handled so far
    nQueries,       \* queries made so far
    bRepeatedQuery  \* the last step was a query that followed a query

VARIABLES
    m_UIState,                  \* CUserInterface::m_State
    m_nStateTime,               \* tick of the last state or frame change
    m_nCurrentSpinnerChar,      \* index into SpinnerChars
    m_CurrentImage,
    m_SystemMessageTextBuffer,  \* [0..SystemMessageTextBufferSize-1 -> char]
    pLastMessage,               \* the text of the last ShowSystemMessage call
    bBacklightEnabled,          \* the LCD's backlight
    bDrawn,                     \* the last Update called DrawSystemState
    nShowTime,                  \* tick of the last call that showed an overlay
    nTriggers                   \* messages and images shown so far

\* The members of the monitor and what its callers hold.
monitorVars == <<m_State, m_PeakLevels, m_PeakTimes, pOutLevels, pOutPeaks,
                 nMessages, nQueries>>
\* Changed by every call on the monitor and by the clock.
callVars == <<lastOp, lastMsg, bRepeatedQuery>>
\* The members of the user interface, its LCD and what its callers hold.
uiVars == <<m_UIState, m_nStateTime, m_nCurrentSpinnerChar, m_CurrentImage,
            m_SystemMessageTextBuffer, pLastMessage, bBacklightEnabled, bDrawn,
            nShowTime, nTriggers>>

vars == <<monitorVars, uiVars, clock, callVars>>

\* The monitor's members as one value.
Engine == [m_State |-> m_State, m_PeakLevels |-> m_PeakLevels,
           m_PeakTimes |-> m_PeakTimes]

----------------------------------------------------------------------------
(* CMIDIMonitor: message handling *)

ClearedNote == [nNoteOnTime |-> 0, nNoteOffTime |-> 0, nVelocity |-> 0]

\* AllNotesOff(): every note of every channel is cleared.
AllNotesOff(st) ==
    [c \in Channels |-> [st[c] EXCEPT !.Notes = [n \in Notes |-> ClearedNote]]]

\* Mutant: the flag is ignored, volume and pan are reset as well.
ResetControllers_IgnoreFlag(st, bIsResetAllControllers) ==
    [c \in Channels |->
        [st[c] EXCEPT !.nExpression = DefaultExpression,
                      !.nVolume = DefaultVolume,
                      !.nPan = DefaultPan]]

\* ResetControllers(bIsResetAllControllers): every channel's expression is
\* reset; volume and pan are reset unless the flag is set.
ResetControllers(st, bIsResetAllControllers) ==
    [c \in Channels |->
        IF bIsResetAllControllers
        THEN [st[c] EXCEPT !.nExpression = DefaultExpression]
        ELSE [st[c] EXCEPT !.nExpression = DefaultExpression,
                           !.nVolume = DefaultVolume,
                           !.nPan = DefaultPan]]

\* Mutant: every channel mode controller, 0x78..0x7F, acts as All Notes Off.
AllNotesOffControllers_WholeRange == CCAllSoundOff..CCMonoOff

AllNotesOffControllers ==
    {CCAllSoundOff, CCAllNotesOff, CCOmniOff, CCOmniOn, CCMonoOn, CCMonoOff}

\* ProcessCC(nChannel, nCC, nValue).
ProcessCC(st, nChannel, nCC, nValue) ==
    CASE nCC = CCVolume -> [st EXCEPT ![nChannel].nVolume = nValue]
      [] nCC = CCPan -> [st EXCEPT ![nChannel].nPan = nValue]
      [] nCC = CCExpression -> [st EXCEPT ![nChannel].nExpression = nValue]
      [] nCC \in AllNotesOffControllers -> AllNotesOff(st)
      [] nCC = CCResetAllControllers -> ResetControllers(st, TRUE)
      [] OTHER -> st

\* case 0x80: State.Notes[nData1].nNoteOffTime = nTicks.
NoteOffStore(note, nTicks) == [note EXCEPT !.nNoteOffTime = nTicks]

\* Mutant: velocity 0 is not told apart, every Note-On starts a note.
NoteOnStore_NoVelocityCheck(note, nTicks, nData2) ==
    [nNoteOnTime |-> nTicks, nNoteOffTime |-> 0, nVelocity |-> nData2]

\* case 0x90: a Note-On with a velocity, or with velocity 0 a Note-Off.
NoteOnStore(note, nTicks, nData2) ==
    IF nData2 # 0
    THEN [nNoteOnTime |-> nTicks, nNoteOffTime |-> 0, nVelocity |-> nData2]
    ELSE [note EXCEPT !.nNoteOffTime = nTicks]

\* The values a note message stores: Note-Off and Note-On with velocity 0
\* store the tick, Note-On with a velocity stores the tick, 0 and the velocity.
StoredValues(bNoteOn, nTicks, nData2) ==
    IF bNoteOn /\ nData2 # 0 THEN {nTicks, 0, nData2} ELSE {nTicks}

\* What a reinterpreted bit pattern can be as a float level: below 0.0f or
\* above 1.0f.
ArbitraryLevels == {-LevelOne, 2 * LevelOne}

\* A store through State.Notes[nData1] with nData1 >= NoteCount is outside the
\* note table (undefined behaviour).  The phantom entry k = nData1 - NoteCount
\* lies behind the channel's table: outside the monitor's members (nothing of
\* the monitor changes), on the next channel's state (its note k, or one of
\* its controller bytes), or, behind the last channel, on the peak arrays.
OutOfBoundsStore(eng, nChannel, nData1, bNoteOn, nTicks, nData2) ==
    LET k == nData1 - NoteCount
        next == nChannel + 1
        vals == StoredValues(bNoteOn, nTicks, nData2)
        alias == eng.m_State[next].Notes[k]
        written == IF bNoteOn THEN NoteOnStore(alias, nTicks, nData2)
                   ELSE NoteOffStore(alias, nTicks)
    IN  {eng}
        \cup (IF next < ChannelCount
              THEN {[eng EXCEPT !.m_State[next].Notes[k] = written]}
                   \cup {[eng EXCEPT !.m_State[next].nVolume = v % 256] : v \in vals}
                   \cup {[eng EXCEPT !.m_State[next].nPan = v % 256] : v \in vals}
                   \cup {[eng EXCEPT !.m_State[next].nExpression = v % 256] : v \in vals}
              ELSE {[eng EXCEPT !.m_PeakLevels[k] = a] : a \in ArbitraryLevels}
                   \cup {[eng EXCEPT !.m_PeakTimes[k] = v % TickModulus] : v \in vals})

\* The note store of case 0x80 and case 0x90: the possible results.
NoteStore(eng, nChannel, nData1, bNoteOn, nTicks, nData2) ==
    IF nData1 < NoteCount
    THEN LET note == eng.m_State[nChannel].Notes[nData1]
         IN {[eng EXCEPT !.m_State[nChannel].Notes[nData1] =
                  IF bNoteOn THEN NoteOnStore(note, nTicks, nData2)
                  ELSE NoteOffStore(note, nTicks)]}
    ELSE OutOfBoundsStore(eng, nChannel, nData1, bNoteOn, nTicks, nData2)

\* The fields of a packed short message.
StatusOf(nMessage) == (nMessage % 256) - (nMessage % 16)
ChannelOf(nMessage) == nMessage % 16
Data1Of(nMessage) == (nMessage \div 256) % 256
Data2Of(nMessage) == (nMessage \div 65536) % 256

\* OnShortMessage(nMessage) at clock tick nTicks: the possible resulting
\* monitors (one, unless the note index is out of bounds).
OnShortMessage(eng, nMessage, nTicks) ==
    LET nStatus == StatusOf(nMessage)
        nChannel == ChannelOf(nMessage)
        nData1 == Data1Of(nMessage)
        nData2 == Data2Of(nMessage)
    IN CASE nStatus = StatusNoteOff ->
              NoteStore(eng, nChannel, nData1, FALSE, nTicks, nData2)
         [] nStatus = StatusNoteOn ->
              NoteStore(eng, nChannel, nData1, TRUE, nTicks, nData2)
         [] nStatus = StatusControlChange ->
              {[eng EXCEPT !.m_State = ProcessCC(@, nChannel, nData1, nData2)]}
         [] nStatus = StatusSystemReset ->
              {[eng EXCEPT !.m_State = ResetControllers(AllNotesOff(@), FALSE)]}
         [] OTHER -> {eng}

----------------------------------------------------------------------------
(* CMIDIMonitor: level query *)

\* EaseFunction(nInput) = -((nInput - 1) * (nInput - 1)) + 1.  The input is a
\* numerator over DecayReleaseTimeMillis, the result one over EnvOne.
EaseFunction(nInput) ==
    -((nInput - DecayReleaseTimeMillis) * (nInput - DecayReleaseTimeMillis)) + EnvOne

\* The decay / release phase shared by both envelopes: the eased remainder of
\* the decay time since tick nSince.
DecayPhase(nTicks, nSince) ==
    LET nDurationMillis ==
            Min(TicksToMillis(TickDiff(nTicks, nSince)), DecayReleaseTimeMillis)
    IN EaseFunction(Max(DecayReleaseTimeMillis - nDurationMillis, 0))

\* ComputeEnvelope(nTicks, NoteState).
ComputeEnvelope(nTicks, NoteState) ==
    IF NoteState.nNoteOnTime = 0 THEN 0
    ELSE LET t == Max(nTicks, NoteState.nNoteOnTime)
         IN IF NoteState.nNoteOffTime = 0
            THEN EnvOne
            ELSE DecayPhase(t, NoteState.nNoteOffTime)

\* ComputePercussionEnvelope(nTicks, NoteState).
ComputePercussionEnvelope(nTicks, NoteState) ==
    IF NoteState.nNoteOnTime = 0 THEN 0
    ELSE LET t == Max(nTicks, NoteState.nNoteOnTime)
         IN DecayPhase(t, NoteState.nNoteOnTime)

\* nNoteVolume of one note: envelope * velocity/127 * volume/127 * expression/127.
NoteVolume(ChannelState, nChannel, nNote, nTicks) ==
    LET NoteState == ChannelState.Notes[nNote]
        nEnvelope == IF nChannel = PercussionChannel
                     THEN ComputePercussionEnvelope(nTicks, NoteState)
                     ELSE ComputeEnvelope(nTicks, NoteState)
    IN nEnvelope * NoteState.nVelocity * ChannelState.nVolume
       * ChannelState.nExpression * PeakFalloffTimeMillis

\* nChannelVolume: the loudest note of the channel, clamped to [0, 1].
ChannelVolume(st, nChannel, nTicks) ==
    The({Clamp(v, 0, LevelOne) :
            v \in {SetMax({0} \cup {NoteVolume(st[nChannel], nChannel, n, nTicks) :
                                        n \in Notes})}})

\* Mutant: the peak is not held, it falls from the moment it was stored.
DecayedPeak_NoHold(nPeakLevel, nPeakTime, nTicks) ==
    LET nPeakUpdatedMillis == TicksToMillis(TickDiff(nTicks, nPeakTime))
    IN Clamp(nPeakLevel - nPeakUpdatedMillis * (LevelOne \div PeakFalloffTimeMillis),
             0, LevelOne)

\* The peak of a channel as the query sees it: the stored peak, fallen
\* linearly once it has been held for PeakHoldTimeMillis.
DecayedPeak(nPeakLevel, nPeakTime, nTicks) ==
    LET nPeakUpdatedMillis == TicksToMillis(TickDiff(nTicks, nPeakTime))
    IN IF nPeakUpdatedMillis >= PeakHoldTimeMillis
       THEN LET nPeakFallMillis == Max(nPeakUpdatedMillis - PeakHoldTimeMillis, 0)
            IN Clamp(nPeakLevel - nPeakFallMillis * (LevelOne \div PeakFalloffTimeMillis),
                     0, LevelOne)
       ELSE nPeakLevel

\* Mutant: a level equal to the peak does not move the stored peak.
PeakSnaps_Strict(nChannelVolume, nPeakLevel) == nChannelVolume > nPeakLevel

\* Whether the query moves the stored peak up to the channel's volume.
PeakSnaps(nChannelVolume, nPeakLevel) == nChannelVolume >= nPeakLevel

\* Mutant: a snapped peak is stored but the peak from before is returned.
ChannelOutputs_StalePeak(nChannelVolume, nPeakLevel, nStoredLevel, nStoredTime, nTicks) ==
    IF PeakSnaps(nChannelVolume, nPeakLevel)
    THEN [level |-> nChannelVolume, peak |-> nPeakLevel,
          m_PeakLevel |-> nChannelVolume, m_PeakTime |-> nTicks]
    ELSE [level |-> nChannelVolume, peak |-> nPeakLevel,
          m_PeakLevel |-> nStoredLevel, m_PeakTime |-> nStoredTime]

\* The end of one channel's turn of the loop of GetChannelLevels: its outputs
\* and its stored peak after the call.
ChannelOutputs(nChannelVolume, nPeakLevel, nStoredLevel, nStoredTime, nTicks) ==
    IF PeakSnaps(nChannelVolume, nPeakLevel)
    THEN [level |-> nChannelVolume, peak |-> nChannelVolume,
          m_PeakLevel |-> nChannelVolume, m_PeakTime |-> nTicks]
    ELSE [level |-> nChannelVolume, peak |-> nPeakLevel,
          m_PeakLevel |-> nStoredLevel, m_PeakTime |-> nStoredTime]

\* One channel's turn of the loop of GetChannelLevels.
ChannelLevels(eng, nChannel, nTicks) ==
    The({ChannelOutputs(v, p, eng.m_PeakLevels[nChannel], eng.m_PeakTimes[nChannel], nTicks) :
            v \in {ChannelVolume(eng.m_State, nChannel, nTicks)},
            p \in {DecayedPeak(eng.m_PeakLevels[nChannel], eng.m_PeakTimes[nChannel], nTicks)}})

\* The outputs and the stored peaks, gathered from the channels' turns.
LevelOutputs(r) ==
    [pOutLevels |-> [c \in Channels |-> r[c].level],
     pOutPeaks |-> [c \in Channels |-> r[c].peak],
     m_PeakLevels |-> [c \in Channels |-> r[c].m_PeakLevel],
     m_PeakTimes |-> [c \in Channels |-> r[c].m_PeakTime]]

\* GetChannelLevels(nTicks, pOutLevels, pOutPeaks): the outputs and the
\* stored peaks after the call.
GetChannelLevels(eng, nTicks) ==
    The({LevelOutputs(r) : r \in {[c \in Channels |-> ChannelLevels(eng, c, nTicks)]}})

----------------------------------------------------------------------------
(* CUserInterface: the overlay state machine *)

SystemMessageTextBufferSize == 21

\* The grave accent (ASCII 96), written out by name.
GraveAccent == "grave"

\* The glyphs of the spinner, SpinnerChars[0] first.
SpinnerChars ==
    <<"_", "_", "_", "-", "'", "'", "^", "^", GraveAccent, GraveAccent,
      "-", "_", "_", "_">>

\* The terminating null character.
NUL == ""

UITickModulus == Max(MaxUITick, MaxSpinnerTick) + 1
BufferCells == 0..(SystemMessageTextBufferSize - 1)

MillisToTicks(nMillis) == nMillis * TicksPerMilli

\* The members of the user interface as one value.
Overlay ==
    [m_State |-> m_UIState, m_nStateTime |-> m_nStateTime,
     m_nCurrentSpinnerChar |-> m_nCurrentSpinnerChar,
     m_CurrentImage |-> m_CurrentImage,
     m_SystemMessageTextBuffer |-> m_SystemMessageTextBuffer]

\* Mutant: the frame index is not taken modulo the number of glyphs.
AdvanceSpinner_NoWrap(ui, nTicks) ==
    LET nNextSpinnerChar == ui.m_nCurrentSpinnerChar + 1
    IN [ui EXCEPT !.m_nCurrentSpinnerChar = nNextSpinnerChar,
                  !.m_SystemMessageTextBuffer[SystemMessageTextBufferSize - 2] =
                      SpinnerChars[Min(nNextSpinnerChar + 1, Len(SpinnerChars))],
                  !.m_nStateTime = nTicks]

\* The spinner arm of Update: the next glyph is stored in the buffer.
AdvanceSpinner(ui, nTicks) ==
    LET nNextSpinnerChar == (ui.m_nCurrentSpinnerChar + 1) % Len(SpinnerChars)
    IN [ui EXCEPT !.m_nCurrentSpinnerChar = nNextSpinnerChar,
                  !.m_SystemMessageTextBuffer[SystemMessageTextBufferSize - 2] =
                      SpinnerChars[nNextSpinnerChar + 1],
                  !.m_nStateTime = nTicks]

\* Mutant: an image that times out leads into power saving.
UpdateState_ImageToPowerSaving(ui, nTicks) ==
    LET nDeltaTicks == (nTicks - ui.m_nStateTime) % UITickModulus
    IN  IF /\ ui.m_State = "DisplayingMessage"
           /\ nDeltaTicks >= MillisToTicks(SystemMessageDisplayTimeMillis)
        THEN [ui EXCEPT !.m_State = "None", !.m_nStateTime = nTicks]
        ELSE IF /\ ui.m_State = "DisplayingSpinnerMessage"
                /\ nDeltaTicks >= MillisToTicks(SystemMessageSpinnerTimeMillis)
        THEN AdvanceSpinner(ui, nTicks)
        ELSE IF /\ ui.m_State = "DisplayingImage"
                /\ nDeltaTicks >= MillisToTicks(SystemMessageDisplayTimeMillis)
        THEN [ui EXCEPT !.m_State = "EnteringPowerSavingMode", !.m_nStateTime = nTicks]
        ELSE IF /\ ui.m_State = "EnteringPowerSavingMode"
                /\ nDeltaTicks >= MillisToTicks(SystemMessageDisplayTimeMillis)
        THEN [ui EXCEPT !.m_State = "InPowerSavingMode", !.m_nStateTime = nTicks]
        ELSE ui

\* The transition of Update(LCD, nTicks): the chain of timeout checks.
UpdateState(ui, nTicks) ==
    LET nDeltaTicks == (nTicks - ui.m_nStateTime) % UITickModulus
    IN  IF /\ ui.m_State = "DisplayingMessage"
           /\ nDeltaTicks >= MillisToTicks(SystemMessageDisplayTimeMillis)
        THEN [ui EXCEPT !.m_State = "None", !.m_nStateTime = nTicks]
        ELSE IF /\ ui.m_State = "DisplayingSpinnerMessage"
                /\ nDeltaTicks >= MillisToTicks(SystemMessageSpinnerTimeMillis)
        THEN AdvanceSpinner(ui, nTicks)
        ELSE IF /\ ui.m_State = "DisplayingImage"
                /\ nDeltaTicks >= MillisToTicks(SystemMessageDisplayTimeMillis)
        THEN [ui EXCEPT !.m_State = "None", !.m_nStateTime = nTicks]
        ELSE IF /\ ui.m_State = "EnteringPowerSavingMode"
                /\ nDeltaTicks >= MillisToTicks(SystemMessageDisplayTimeMillis)
        THEN [ui EXCEPT !.m_State = "InPowerSavingMode", !.m_nStateTime = nTicks]
        ELSE ui

\* Mutant: the backlight goes off without waiting for the display time.
UpdateDisablesBacklight_Early(ui, nTicks) ==
    ui.m_State = "EnteringPowerSavingMode"

\* Whether Update(LCD, nTicks) calls LCD.SetBacklightEnabled(false).
UpdateDisablesBacklight(ui, nTicks) ==
    /\ ui.m_State = "EnteringPowerSavingMode"
    /\ (nTicks - ui.m_nStateTime) % UITickModulus
         >= MillisToTicks(SystemMessageDisplayTimeMillis)

\* Mutant: DrawSystemState is called whatever the state.
Update_AlwaysDraws(ui, nTicks) ==
    [ui |-> UpdateState(ui, nTicks),
     bBacklightOff |-> UpdateDisablesBacklight(ui, nTicks),
     bDrawn |-> TRUE]

\* Update(LCD, nTicks): the members after the call, whether the backlight was
\* switched off and whether DrawSystemState was called.
Update(ui, nTicks) ==
    [ui |-> UpdateState(ui, nTicks),
     bBacklightOff |-> UpdateDisablesBacklight(ui, nTicks),
     bDrawn |-> UpdateState(ui, nTicks).m_State # "None"]

\* snprintf(buffer, size, ...) with the formatted output out: at most size - 1
\* characters and the terminator are stored, at the cells 0..size - 1 whether
\* or not the buffer has them; the cells behind the terminator stay.
Snprintf(buffer, nSize, out) ==
    LET n == Min(Len(out), nSize - 1)
    IN [i \in (DOMAIN buffer) \cup (0..n) |->
            IF i < n THEN out[i + 1] ELSE IF i = n THEN NUL ELSE buffer[i]]

\* Mutant: the text is padded but not cut (no precision in the format).
PadTruncate_NoTruncate(pMessage, n) ==
    [i \in 1..Max(n, Len(pMessage)) |->
        IF i <= Len(pMessage) THEN pMessage[i] ELSE " "]

\* "%-*.*s" with width and precision n: the first n characters of the string,
\* left-justified and padded with spaces.
PadTruncate(pMessage, n) ==
    [i \in 1..n |-> IF i <= Len(pMessage) THEN pMessage[i] ELSE " "]

\* What a conversion prints for an argument that was never passed.
GarbageArguments == {<<"0">>, <<"-", "1">>}

\* The output of a format string that is passed no arguments.  A conversion
\* (a percent sign and its letter) reads an argument that does not exist (undefined
\* behaviour).
FormatOutputs(pFormat) ==
    IF \A i \in DOMAIN pFormat : pFormat[i] # "%"
    THEN {pFormat}
    ELSE LET p == CHOOSE i \in DOMAIN pFormat :
                    /\ pFormat[i] = "%"
                    /\ \A j \in 1..(i - 1) : pFormat[j] # "%"
         IN {SubSeq(pFormat, 1, p - 1) \o g \o SubSeq(pFormat, p + 2, Len(pFormat)) :
                g \in GarbageArguments}

\* Mutant: showing a spinner message does not take the spinner back to frame 0.
ShowSystemMessage_KeepSpinnerChar(ui, pMessage, bSpinner, nTicks) ==
    IF bSpinner
    THEN LET nMaxMessageLen == SystemMessageTextBufferSize - 3
             out == PadTruncate(pMessage, nMaxMessageLen) \o <<" ", SpinnerChars[1]>>
         IN {[ui EXCEPT !.m_SystemMessageTextBuffer =
                            Snprintf(@, SystemMessageTextBufferSize, out),
                        !.m_State = "DisplayingSpinnerMessage",
                        !.m_nStateTime = nTicks]}
    ELSE {[ui EXCEPT !.m_SystemMessageTextBuffer =
                         Snprintf(@, SystemMessageTextBufferSize, out),
                     !.m_State = "DisplayingMessage",
                     !.m_nStateTime = nTicks] : out \in FormatOutputs(pMessage)}

\* ShowSystemMessage(pMessage, bSpinner) at tick nTicks: the possible results.
ShowSystemMessage(ui, pMessage, bSpinner, nTicks) ==
    IF bSpinner
    THEN LET nMaxMessageLen == SystemMessageTextBufferSize - 3
             out == PadTruncate(pMessage, nMaxMessageLen) \o <<" ", SpinnerChars[1]>>
         IN {[ui EXCEPT !.m_SystemMessageTextBuffer =
                            Snprintf(@, SystemMessageTextBufferSize, out),
                        !.m_State = "DisplayingSpinnerMessage",
                        !.m_nCurrentSpinnerChar = 0,
                        !.m_nStateTime = nTicks]}
    ELSE {[ui EXCEPT !.m_SystemMessageTextBuffer =
                         Snprintf(@, SystemMessageTextBufferSize, out),
                     !.m_State = "DisplayingMessage",
                     !.m_nStateTime = nTicks] : out \in FormatOutputs(pMessage)}

\* Mutant: the state entry tick is not set.
DisplayImage_KeepStateTime(ui, Image, nTicks) ==
    [ui EXCEPT !.m_CurrentImage = Image,
               !.m_State = "DisplayingImage"]

\* DisplayImage(Image) at tick nTicks.
DisplayImage(ui, Image, nTicks) ==
    [ui EXCEPT !.m_CurrentImage = Image,
               !.m_State = "DisplayingImage",
               !.m_nStateTime = nTicks]

\* The power-saving trigger: the overlay announces power saving.
EnterPowerSavingMode(ui, nTicks) ==
    [ui EXCEPT !.m_State = "EnteringPowerSavingMode", !.m_nStateTime = nTicks]

----------------------------------------------------------------------------
(* Inputs *)

\* The packed short message status | data1 << 8 | data2 << 16.
ShortMessage(nStatusByte, nData1, nData2) ==
    nStatusByte + 256 * nData1 + 65536 * nData2

NoteOnMessage(c, n, v) == ShortMessage(StatusNoteOn + c, n, v)
NoteOffMessage(c, n, v) == ShortMessage(StatusNoteOff + c, n, v)
ControlMessage(c, cc, v) == ShortMessage(StatusControlChange + c, cc, v)
SystemResetMessage == ShortMessage(StatusSystemReset, 0, 0)
\* A status OnShortMessage does not handle: program change, 0xC0.
ProgramChangeMessage == ShortMessage(12 * 16, 0, 0)

\* The first data byte of a note message: an index of the table, or (a byte
\* above the MIDI range) one behind it.
NoteNumbers == 0..(2 * NoteCount - 1)

\* MIDI messages the monitor decodes, with 7-bit data bytes: notes on melodic
\* channel 0 and on the percussion channel, controller and channel mode
\* messages, and a System Reset.
MidiMessages ==
    {NoteOnMessage(0, 0, 100), NoteOnMessage(0, 0, 0), NoteOffMessage(0, 0, 64),
     NoteOnMessage(0, NoteCount - 1, 127),
     NoteOnMessage(PercussionChannel, 0, 100), NoteOffMessage(PercussionChannel, 0, 0),
     ControlMessage(0, CCVolume, 127), ControlMessage(0, CCExpression, 64),
     ControlMessage(0, CCPan, 0),
     ControlMessage(PercussionChannel, CCAllNotesOff, 0),
     ControlMessage(PercussionChannel, CCResetAllControllers, 0),
     SystemResetMessage}

\* MIDI messages the monitor has no case for: controllers it does not track
\* (modulation, 1, and local control, 0x7A, between the channel mode
\* controllers it does track) and a program change.
UnhandledMessages ==
    {ControlMessage(0, 1, 0), ControlMessage(0, CCResetAllControllers + 1, 0),
     ProgramChangeMessage}

\* Packed messages whose data bytes exceed the MIDI range: a velocity of 255,
\* and note numbers behind the table of channel 0 and of the last channel.
WideMessages ==
    {NoteOnMessage(0, 0, 255), NoteOnMessage(0, NoteCount, 100),
     NoteOffMessage(ChannelCount - 1, 2 * NoteCount - 1, 0)}

\* The letters texts are made of.
Alphabet ==
    <<"a", "b", "c", "d", "e", "f", "g", "h", "i", "j", "k", "l", "m", "n",
      "o", "p", "q", "r", "s", "t", "u", "v", "w", "x", "y", "z">>

\* A text of n characters.
Text(n) == [i \in 1..n |-> Alphabet[((i - 1) % Len(Alphabet)) + 1]]

\* Texts without conversions: empty, short, as long as the spinner text
\* field, one longer, and longer than the buffer.
PlainTexts ==
    {Text(n) : n \in {0, 2, SystemMessageTextBufferSize - 3,
                      SystemMessageTextBufferSize - 2,
                      SystemMessageTextBufferSize + 1}}

\* A text holding a conversion.
FormatText == <<"n", "=", "%", "d">>

\* The texts shown without a spinner.
MessageTexts == {Text(2), Text(SystemMessageTextBufferSize + 1), FormatText}

\* The texts shown with a spinner.
SpinnerTexts == PlainTexts

Images == {"None", "Logo"}

----------------------------------------------------------------------------
(* Specification *)

InitialChannel ==
    [Notes |-> [n \in Notes |-> ClearedNote],
     nVolume |-> DefaultVolume, nPan |-> DefaultPan,
     nExpression |-> DefaultExpression]

\* CUserInterface::CUserInterface(); the backlight is on.
UIInit ==
    /\ m_UIState = "None"
    /\ m_nStateTime = 0
    /\ m_nCurrentSpinnerChar = 0
    /\ m_CurrentImage = "None"
    /\ m_SystemMessageTextBuffer = [i \in BufferCells |-> NUL]
    /\ pLastMessage = <<>>
    /\ bBacklightEnabled = TRUE
    /\ bDrawn = FALSE
    /\ nShowTime = 0
    /\ nTriggers = 0

\* CMIDIMonitor::CMIDIMonitor() and CUserInterface::CUserInterface().
Init ==
    /\ m_State = ResetControllers(AllNotesOff([c \in Channels |-> InitialChannel]), FALSE)
    /\ m_PeakLevels = [c \in Channels |-> 0]
    /\ m_PeakTimes = [c \in Channels |-> 0]
    /\ clock = 0
    /\ pOutLevels = [c \in Channels |-> 0]
    /\ pOutPeaks = [c \in Channels |-> 0]
    /\ lastOp = "init"
    /\ lastMsg = 0
    /\ nMessages = 0
    /\ nQueries = 0
    /\ bRepeatedQuery = FALSE
    /\ UIInit

\* The clock advances.
Tick ==
    /\ clock < MaxTick
    /\ clock' = clock + 1
    /\ lastOp' = "tick"
    /\ lastMsg' = 0
    /\ bRepeatedQuery' = FALSE
    /\ UNCHANGED <<monitorVars, uiVars>>

\* OnShortMessage(nMessage) at the current clock tick.
Receive(nMessage) ==
    /\ nMessages < MaxMessages
    /\ \E eng \in OnShortMessage(Engine, nMessage, clock) :
          /\ m_State' = eng.m_State
          /\ m_PeakLevels' = eng.m_PeakLevels
          /\ m_PeakTimes' = eng.m_PeakTimes
    /\ lastOp' = "msg"
    /\ lastMsg' = nMessage
    /\ nMessages' = nMessages + 1
    /\ bRepeatedQuery' = FALSE
    /\ UNCHANGED <<clock, pOutLevels, pOutPeaks, nQueries, uiVars>>

\* GetChannelLevels(nTicks, pOutLevels, pOutPeaks).
Query(nTicks) ==
    /\ nQueries < MaxQueries
    /\ \E r \in {GetChannelLevels(Engine, nTicks)} :
          /\ pOutLevels' = r.pOutLevels
          /\ pOutPeaks' = r.pOutPeaks
          /\ m_PeakLevels' = r.m_PeakLevels
          /\ m_PeakTimes' = r.m_PeakTimes
    /\ lastOp' = "query"
    /\ lastMsg' = 0
    /\ nQueries' = nQueries + 1
    /\ bRepeatedQuery' = (lastOp = "query")
    /\ UNCHANGED <<m_State, clock, nMessages, uiVars>>

ReceiveMidi == \E nMessage \in MidiMessages : Receive(nMessage)
ReceiveUnhandled == \E nMessage \in UnhandledMessages : Receive(nMessage)
ReceiveWide == \E nMessage \in WideMessages : Receive(nMessage)
\* The caller passes the tick it has read from the clock.
QueryNow == Query(clock)

\* The monitor fed with the MIDI messages it decodes.
Next == Tick \/ ReceiveMidi \/ QueryNow
Spec == Init /\ [][Next]_vars

\* The monitor fed with MIDI messages, those it has no case for among them.
NextUnhandled == Tick \/ ReceiveMidi \/ ReceiveUnhandled \/ QueryNow
SpecUnhandled == Init /\ [][NextUnhandled]_vars

\* The monitor fed with any packed message.
NextAnyMessage == Tick \/ ReceiveMidi \/ ReceiveUnhandled \/ ReceiveWide \/ QueryNow
SpecAnyMessage == Init /\ [][NextAnyMessage]_vars

\* The clock of the user interface advances.
UITick ==
    /\ clock < MaxUITick
    /\ clock' = clock + 1
    /\ lastOp' = "tick"
    /\ UNCHANGED <<monitorVars, uiVars, lastMsg, bRepeatedQuery>>

SetOverlay(ui) ==
    /\ m_UIState' = ui.m_State
    /\ m_nStateTime' = ui.m_nStateTime
    /\ m_nCurrentSpinnerChar' = ui.m_nCurrentSpinnerChar
    /\ m_CurrentImage' = ui.m_CurrentImage
    /\ m_SystemMessageTextBuffer' = ui.m_SystemMessageTextBuffer

\* Update(LCD, nTicks) with the tick read from the clock.
CallUpdate ==
    /\ \E r \in {Update(Overlay, clock)} :
          /\ SetOverlay(r.ui)
          /\ bBacklightEnabled' = IF r.bBacklightOff THEN FALSE ELSE bBacklightEnabled
          /\ bDrawn' = r.bDrawn
    /\ lastOp' = "update"
    /\ UNCHANGED <<monitorVars, clock, lastMsg, bRepeatedQuery, pLastMessage,
                   nShowTime, nTriggers>>

\* ShowSystemMessage(pMessage, bSpinner); GetClockTicks() reads the clock.
CallShowSystemMessage ==
    /\ nTriggers < MaxTriggers
    /\ \E bSpinner \in BOOLEAN :
          \E pMessage \in IF bSpinner THEN SpinnerTexts ELSE MessageTexts :
              /\ \E ui \in ShowSystemMessage(Overlay, pMessage, bSpinner, clock) :
                    SetOverlay(ui)
              /\ pLastMessage' = pMessage
              /\ lastOp' = IF bSpinner THEN "spinner" ELSE "message"
    /\ nShowTime' = clock
    /\ nTriggers' = nTriggers + 1
    /\ UNCHANGED <<monitorVars, clock, lastMsg, bRepeatedQuery, bBacklightEnabled,
                   bDrawn>>

\* ShowSystemMessage(pMessage, true), once.
CallShowSpinnerOnce ==
    /\ nTriggers = 0
    /\ \E pMessage \in SpinnerTexts :
          /\ \E ui \in ShowSystemMessage(Overlay, pMessage, TRUE, clock) :
                SetOverlay(ui)
          /\ pLastMessage' = pMessage
    /\ lastOp' = "spinner"
    /\ nShowTime' = clock
    /\ nTriggers' = nTriggers + 1
    /\ UNCHANGED <<monitorVars, clock, lastMsg, bRepeatedQuery, bBacklightEnabled,
                   bDrawn>>

\* The clock advances while the spinner runs.
SpinnerTick ==
    /\ clock < MaxSpinnerTick
    /\ clock' = clock + 1
    /\ lastOp' = "tick"
    /\ UNCHANGED <<monitorVars, uiVars, lastMsg, bRepeatedQuery>>

\* DisplayImage(Image); GetClockTicks() reads the clock.
CallDisplayImage ==
    /\ nTriggers < MaxTriggers
    /\ \E Image \in Images : SetOverlay(DisplayImage(Overlay, Image, clock))
    /\ lastOp' = "image"
    /\ nShowTime' = clock
    /\ nTriggers' = nTriggers + 1
    /\ UNCHANGED <<monitorVars, clock, lastMsg, bRepeatedQuery, pLastMessage,
                   bBacklightEnabled, bDrawn>>

\* The power-saving trigger is called.
CallEnterPowerSavingMode ==
    /\ nTriggers < MaxTriggers
    /\ SetOverlay(EnterPowerSavingMode(Overlay, clock))
    /\ lastOp' = "powersaving"
    /\ nShowTime' = clock
    /\ nTriggers' = nTriggers + 1
    /\ UNCHANGED <<monitorVars, clock, lastMsg, bRepeatedQuery, pLastMessage,
                   bBacklightEnabled, bDrawn>>

\* The user interface as the program drives it.
NextUI == UITick \/ CallUpdate \/ CallShowSystemMessage \/ CallDisplayImage
SpecUI == Init /\ [][NextUI]_vars

\* One spinner message, periodic updates and no further trigger.
NextSpinner == SpinnerTick \/ CallUpdate \/ CallShowSpinnerOnce
SpecSpinner == Init /\ [][NextSpinner]_vars

\* The user interface with the power-saving trigger in place.
NextPowerSaving ==
    UITick \/ CallUpdate \/ CallShowSystemMessage \/ CallDisplayImage
        \/ CallEnterPowerSavingMode
SpecPowerSaving == Init /\ [][NextPowerSaving]_vars

----------------------------------------------------------------------------
(* Claims *)

AllCleared(st) ==
    \A c \in Channels :
        /\ \A n \in Notes : st[c].Notes[n] = ClearedNote
        /\ st[c].nVolume = DefaultVolume
        /\ st[c].nPan = DefaultPan
        /\ st[c].nExpression = DefaultExpression

\* C1: once OnShortMessage has received a System Reset (status byte 0xFF),
\* every note of every channel is cleared and every channel has volume 100,
\* pan 64 and expression 127.
C1_SystemResetClearsAll ==
    (lastOp = "msg" /\ lastMsg % 256 = StatusSystemReset) => AllCleared(m_State)

\* C2: every GetChannelLevels call returns, for each channel, a level in [0, 1]
\* and a peak in [0, 1] that is at least the level, whatever packed messages
\* (data bytes up to 255) have been received.
C2_LevelsAndPeaksInRange ==
    \A c \in Channels :
        /\ 0 <= pOutLevels[c] /\ pOutLevels[c] <= LevelOne
        /\ 0 <= pOutPeaks[c] /\ pOutPeaks[c] <= LevelOne
        /\ pOutPeaks[c] >= pOutLevels[c]

\* C3: after a Note-On with a velocity on a non-percussion channel, received at
\* any tick (tick 0 included), and no later message, every query at a later
\* or the same tick computes the note's contribution with envelope 1, as
\* velocity/127 * volume/127 * expression/127; the velocity is not 0, so with
\* volume and expression not 0 the contribution is not 0.
C3_NoteOnContribution ==
    (/\ lastOp = "msg"
     /\ StatusOf(lastMsg) = StatusNoteOn
     /\ Data2Of(lastMsg) # 0
     /\ Data1Of(lastMsg) < NoteCount
     /\ ChannelOf(lastMsg) # PercussionChannel)
    => LET c == ChannelOf(lastMsg)
           n == Data1Of(lastMsg)
       IN \A t \in Ticks :
            t >= clock =>
                NoteVolume(m_State[c], c, n, t)
                    = EnvOne * Data2Of(lastMsg) * m_State[c].nVolume
                      * m_State[c].nExpression * PeakFalloffTimeMillis

\* The velocities the one-step claims range over: no velocity, a MIDI velocity
\* and a byte above the MIDI range.
Velocities == {0, 64, 255}

\* The step is an OnShortMessage.
MessageStep == nMessages' = nMessages + 1

\* A message that releases a note: a Note-Off, or a Note-On with velocity 0.
IsRelease(nMessage) ==
    \/ StatusOf(nMessage) = StatusNoteOff
    \/ StatusOf(nMessage) = StatusNoteOn /\ Data2Of(nMessage) = 0

\* C4: a Note-On with velocity 0 is a Note-Off.  Whenever the monitor handles
\* a Note-Off or a Note-On with velocity 0 for note n of channel c, the
\* Note-On with velocity 0 and the Note-Off with any velocity have, from the
\* state and at the tick of the step, the same results, and the step ends in
\* the state with the off time of the note set to the tick and nothing else
\* changed.
C4_NoteOnVelocityZeroIsNoteOff ==
    [][(MessageStep /\ IsRelease(lastMsg')) =>
        \A c \in {ChannelOf(lastMsg')}, n \in {Data1Of(lastMsg')} :
            \A on0 \in {OnShortMessage(Engine, NoteOnMessage(c, n, 0), clock)} :
                /\ \A v \in Velocities :
                     OnShortMessage(Engine, NoteOffMessage(c, n, v), clock) = on0
                /\ n < NoteCount =>
                     /\ on0 = {[Engine EXCEPT !.m_State[c].Notes[n].nNoteOffTime = clock]}
                     /\ m_State' = [m_State EXCEPT ![c].Notes[n].nNoteOffTime = clock]
                     /\ m_PeakLevels' = m_PeakLevels
                     /\ m_PeakTimes' = m_PeakTimes]_vars

\* C4 witness: a sounding note has been released by a Note-On with velocity 0.
C4_Witness ==
    /\ lastOp = "msg"
    /\ lastMsg = NoteOnMessage(0, 0, 0)
    /\ m_State[0].Notes[0].nNoteOnTime # 0
    /\ m_State[0].Notes[0].nVelocity # 0
    /\ m_State[0].Notes[0].nNoteOffTime = clock
    /\ clock > m_State[0].Notes[0].nNoteOnTime

\* ease(1 - elapsed/decayReleaseTimeMillis) in closed form, 1 - (elapsed/decay)^2,
\* as a numerator over EnvOne; 0 from decayReleaseTimeMillis on.
ExpectedRelease(nElapsedMillis) ==
    IF nElapsedMillis < DecayReleaseTimeMillis
    THEN EnvOne - nElapsedMillis * nElapsedMillis
    ELSE 0

\* C5: on a non-percussion channel, the envelope of a sounding note (one with
\* the velocity of its Note-On) released by a Note-Off at tick F is, at every
\* query tick t1 >= F, the eased value ease(1 - elapsed/decayReleaseTimeMillis)
\* of the milliseconds elapsed since F and 0 once these reach
\* decayReleaseTimeMillis, and at no later tick t2 >= t1 is it larger.
C5_ReleaseDecay ==
    \A c \in Channels \ {PercussionChannel}, n \in Notes :
        \A note \in {m_State[c].Notes[n]} :
            (note.nVelocity # 0 /\ note.nNoteOffTime # 0) =>
                \A t1 \in Ticks :
                    t1 >= note.nNoteOffTime =>
                        /\ ComputeEnvelope(t1, note)
                             = ExpectedRelease(TicksToMillis(t1 - note.nNoteOffTime))
                        /\ \A t2 \in Ticks :
                             t2 >= t1 =>
                                ComputeEnvelope(t2, note) <= ComputeEnvelope(t1, note)

\* C6: on the percussion channel the envelope of a note that received a
\* Note-On with a velocity depends only on the time since that Note-On: with
\* or without a Note-Off it is the eased value of the milliseconds elapsed since
\* the Note-On, 0 once these reach decayReleaseTimeMillis, and a Note-Off for
\* the note changes the level of the channel at no tick.
C6_PercussionDecaysFromNoteOn ==
    \A n \in Notes :
        \A note \in {m_State[PercussionChannel].Notes[n]} :
            /\ note.nVelocity # 0 =>
                 \A t \in Ticks :
                    t >= note.nNoteOnTime =>
                        ComputePercussionEnvelope(t, note)
                            = ExpectedRelease(TicksToMillis(t - note.nNoteOnTime))
            /\ \A v \in Velocities :
                 \A eng \in OnShortMessage(Engine, NoteOffMessage(PercussionChannel, n, v), clock) :
                    \A t \in Ticks :
                        ChannelVolume(eng.m_State, PercussionChannel, t)
                            = ChannelVolume(m_State, PercussionChannel, t)

\* The step is an OnShortMessage of a Control Change with a controller of S.
ControlChangeStep(S) ==
    /\ MessageStep
    /\ StatusOf(lastMsg') = StatusControlChange
    /\ Data1Of(lastMsg') \in S

\* C7: a Control Change 120, 123, 124, 125, 126 or 127 on channel c clears all
\* notes of channel c and leaves the note state of every other channel
\* unchanged.
C7_AllNotesOffOnItsChannelOnly ==
    [][ControlChangeStep(AllNotesOffControllers) =>
        /\ \A n \in Notes : m_State'[ChannelOf(lastMsg')].Notes[n] = ClearedNote
        /\ \A c \in Channels \ {ChannelOf(lastMsg')} :
              m_State'[c].Notes = m_State[c].Notes]_vars

\* C8: a Control Change 121 on channel c sets the expression of channel c to
\* 127 and leaves the expression of every other channel unchanged.
C8_ResetControllersOnItsChannelOnly ==
    [][ControlChangeStep({CCResetAllControllers}) =>
        /\ m_State'[ChannelOf(lastMsg')].nExpression = DefaultExpression
        /\ \A c \in Channels \ {ChannelOf(lastMsg')} :
              m_State'[c].nExpression = m_State[c].nExpression]_vars

\* C9: a Control Change 121, on any channel and with any value, leaves the
\* volume and the pan of every channel and all note state unchanged.
C9_ResetControllersKeepsVolumePanNotes ==
    [][ControlChangeStep({CCResetAllControllers}) =>
        \A c \in Channels :
            /\ m_State'[c].nVolume = m_State[c].nVolume
            /\ m_State'[c].nPan = m_State[c].nPan
            /\ m_State'[c].Notes = m_State[c].Notes]_vars

\* C9 witness: a Control Change 121 has been handled while a volume or a pan
\* differs from its default.
C9_Witness ==
    /\ lastOp = "msg"
    /\ StatusOf(lastMsg) = StatusControlChange
    /\ Data1Of(lastMsg) = CCResetAllControllers
    /\ \E c \in Channels :
          m_State[c].nVolume # DefaultVolume \/ m_State[c].nPan # DefaultPan

\* C10: from one query to the next the returned peak of a channel does not
\* decrease while the milliseconds h since the last peak update are below
\* peakHoldTimeMillis; once h >= peakHoldTimeMillis the returned peak is
\* max(level, clamp(stored peak - (h - peakHoldTimeMillis)/peakFalloffTimeMillis, 0, 1)).
\* (pOutPeaks is what the last query returned, clock the tick of the query.)
C10_PeakHoldAndFall ==
    [][nQueries' = nQueries + 1 =>
        \A c \in Channels :
            \A h \in {TicksToMillis(TickDiff(clock, m_PeakTimes[c]))} :
                /\ h < PeakHoldTimeMillis => pOutPeaks'[c] >= pOutPeaks[c]
                /\ h >= PeakHoldTimeMillis =>
                     pOutPeaks'[c]
                        = Max(pOutLevels'[c],
                              Clamp(m_PeakLevels[c]
                                    - (h - PeakHoldTimeMillis)
                                      * (LevelOne \div PeakFalloffTimeMillis),
                                    0, LevelOne))]_vars

\* C10 witness: a second query has returned a peak that is falling: above the
\* level, above 0 and below the stored peak.
C10_Witness ==
    /\ lastOp = "query"
    /\ nQueries >= 2
    /\ \E c \in Channels :
          /\ pOutPeaks[c] > pOutLevels[c]
          /\ pOutPeaks[c] > 0
          /\ pOutPeaks[c] < m_PeakLevels[c]

----------------------------------------------------------------------------
(* Claims on the user interface *)

\* Ticks elapsed on the clock since the tick nSince.
Elapsed(nSince) == (clock - nSince) % UITickModulus

DisplayTicks == MillisToTicks(SystemMessageDisplayTimeMillis)
SpinnerTicks == MillisToTicks(SystemMessageSpinnerTimeMillis)

\* The step is a call of ShowSystemMessage or DisplayImage.
TriggerStep == nTriggers' = nTriggers + 1
\* The step is a call of Update that changed something.
UpdateStep == lastOp' = "update"

\* C11: ShowSystemMessage(text, false) and DisplayImage(id), called in any
\* overlay state, set the state to DisplayingMessage resp. DisplayingImage and
\* the state entry tick to the current tick; from either state an Update
\* returns to None exactly when the ticks elapsed since the call have reached
\* the message display time, and leaves the state alone before.
C11_MessageAndImageTimeout ==
    [][/\ (TriggerStep /\ lastOp' = "message") =>
              (m_UIState' = "DisplayingMessage" /\ m_nStateTime' = clock)
       /\ (TriggerStep /\ lastOp' = "image") =>
              (m_UIState' = "DisplayingImage" /\ m_nStateTime' = clock)
       /\ (UpdateStep /\ m_UIState \in {"DisplayingMessage", "DisplayingImage"}) =>
              m_UIState' = IF Elapsed(nShowTime) >= DisplayTicks
                           THEN "None" ELSE m_UIState
      ]_vars

\* A message and an image were shown, the second while the first was still
\* displayed, and a late Update has just timed the second one out.
C11_Witness ==
    /\ nTriggers = 2
    /\ nShowTime < DisplayTicks
    /\ lastOp = "update"
    /\ m_UIState = "None"
    /\ m_nStateTime = clock
    /\ Elapsed(nShowTime) > DisplayTicks
    /\ m_CurrentImage = "Logo"
    /\ m_SystemMessageTextBuffer[0] # NUL
    /\ m_nCurrentSpinnerChar = 0

\* C12: after ShowSystemMessage(text, true), with periodic Updates and no
\* further trigger, the overlay has left DisplayingSpinnerMessage for None once
\* an Update runs with the message display time elapsed since the call.
C12_SpinnerTimesOut ==
    (/\ nTriggers = 1
     /\ lastOp = "update"
     /\ Elapsed(nShowTime) >= DisplayTicks) => m_UIState = "None"

\* C13: in DisplayingSpinnerMessage an Update with at least the spinner frame
\* time elapsed since the previous frame change advances the frame index by
\* one modulo 14, stores the glyph of the new frame in cell 19 of the buffer
\* and leaves every other cell as it was; the frame change is timed from this
\* Update on.  With less time elapsed the frame and the buffer stay.
C13_SpinnerAdvance ==
    [][(UpdateStep /\ m_UIState = "DisplayingSpinnerMessage") =>
          IF Elapsed(m_nStateTime) >= SpinnerTicks
          THEN /\ m_nCurrentSpinnerChar' = (m_nCurrentSpinnerChar + 1) % 14
               /\ m_SystemMessageTextBuffer' =
                    [m_SystemMessageTextBuffer EXCEPT
                        ![19] = SpinnerChars[m_nCurrentSpinnerChar' + 1]]
               /\ m_nStateTime' = clock
               /\ m_UIState' = "DisplayingSpinnerMessage"
          ELSE /\ m_nCurrentSpinnerChar' = m_nCurrentSpinnerChar
               /\ m_SystemMessageTextBuffer' = m_SystemMessageTextBuffer
      ]_vars

\* Fourteen Updates, each one frame time after the one before, have taken the
\* spinner once round: it shows frame 0 again, behind an unchanged text.
C13_Witness ==
    /\ m_UIState = "DisplayingSpinnerMessage"
    /\ lastOp = "update"
    /\ m_nStateTime = clock
    /\ Elapsed(nShowTime) = 14 * SpinnerTicks
    /\ m_nCurrentSpinnerChar = 0
    /\ m_SystemMessageTextBuffer[19] = SpinnerChars[1]
    /\ pLastMessage = Text(2)
    /\ m_SystemMessageTextBuffer[0] = "a"
    /\ m_SystemMessageTextBuffer[18] = " "

\* C14: ShowSystemMessage(text, true), for a text of any length, leaves in
\* the 21 cells of the buffer the first 18 characters of the text,
\* left-justified and padded with spaces to 18, then a space, the glyph of
\* spinner frame 0 and the terminator; the state is DisplayingSpinnerMessage,
\* the frame index 0 and the state entry tick the current tick.  A longer
\* text is cut, and no cell outside the buffer is written.
C14_SpinnerMessageLayout ==
    lastOp = "spinner" =>
        /\ DOMAIN m_SystemMessageTextBuffer = 0..20
        /\ \A i \in 0..17 :
              m_SystemMessageTextBuffer[i] =
                  IF i < Len(pLastMessage) THEN pLastMessage[i + 1] ELSE " "
        /\ m_SystemMessageTextBuffer[18] = " "
        /\ m_SystemMessageTextBuffer[19] = "_"
        /\ m_SystemMessageTextBuffer[20] = NUL
        /\ m_UIState = "DisplayingSpinnerMessage"
        /\ m_nCurrentSpinnerChar = 0
        /\ m_nStateTime = clock

\* A text longer than the buffer has just been shown with a spinner, as the
\* second overlay of the behaviour.
C14_Witness ==
    /\ lastOp = "spinner"
    /\ Len(pLastMessage) > 21
    /\ nTriggers = 2
    /\ clock >= SpinnerTicks
    /\ m_SystemMessageTextBuffer[17] = "r"

\* C17: in EnteringPowerSavingMode an Update switches the backlight off and
\* moves to InPowerSavingMode exactly when the message display time has
\* elapsed since the state was entered; the backlight is switched off by no
\* other step; an Update in InPowerSavingMode leaves the state as it is.
C17_PowerSavingTransition ==
    [][/\ (UpdateStep /\ m_UIState = "EnteringPowerSavingMode") =>
              IF Elapsed(nShowTime) >= DisplayTicks
              THEN m_UIState' = "InPowerSavingMode" /\ ~bBacklightEnabled'
              ELSE UNCHANGED <<m_UIState, bBacklightEnabled>>
       /\ (bBacklightEnabled /\ ~bBacklightEnabled') =>
              /\ UpdateStep
              /\ m_UIState = "EnteringPowerSavingMode"
              /\ m_UIState' = "InPowerSavingMode"
       /\ (UpdateStep /\ m_UIState = "InPowerSavingMode") =>
              UNCHANGED <<m_UIState, bBacklightEnabled>>
      ]_vars

\* Power saving was entered, and an Update has run since at a later tick: the
\* backlight is off and the state still InPowerSavingMode.
C17_Witness ==
    /\ m_UIState = "InPowerSavingMode"
    /\ ~bBacklightEnabled
    /\ lastOp = "update"
    /\ m_nStateTime < clock
    /\ m_nStateTime - nShowTime >= DisplayTicks

\* One of the timeout conditions of Update is met at the current tick.
TimeoutMet ==
    \/ /\ m_UIState \in {"DisplayingMessage", "DisplayingImage",
                         "EnteringPowerSavingMode"}
       /\ Elapsed(m_nStateTime) >= DisplayTicks
    \/ /\ m_UIState = "DisplayingSpinnerMessage"
       /\ Elapsed(m_nStateTime) >= SpinnerTicks

----------------------------------------------------------------------------
(* Claims on the monitor, continued *)

\* C15: for every message OnShortMessage decodes as a Note-On or Note-Off,
\* the channel index lies in 0..15 and the note index used on the note table
\* of the channel lies inside the table (0..127 in the program).
C15_IndicesInRange ==
    (lastOp = "msg" /\ StatusOf(lastMsg) \in {StatusNoteOff, StatusNoteOn}) =>
        /\ ChannelOf(lastMsg) \in Channels
        /\ Data1Of(lastMsg) \in Notes

\* The message is none of those the spec gives an effect: its status is not
\* Note-Off, Note-On, Control Change or System Reset, or it is a Control
\* Change for a controller other than 7, 10, 11, 120, 121 and 123..127.
IsUnhandled(nMessage) ==
    \/ /\ StatusOf(nMessage) \notin {128, 144, 176}
       /\ nMessage % 256 # 255
    \/ /\ StatusOf(nMessage) = 176
       /\ Data1Of(nMessage) \notin ({7, 10, 11, 120, 121} \cup (123..127))

\* C16: OnShortMessage with a message whose status is not Note-Off, Note-On,
\* Control Change or System Reset, or with a Control Change for a controller
\* other than 7, 10, 11, 120, 121, 123..127, leaves the notes and controllers
\* of every channel and the stored peaks unchanged.
C16_UnhandledMessagesChangeNothing ==
    [][(MessageStep /\ IsUnhandled(lastMsg')) =>
          UNCHANGED <<m_State, m_PeakLevels, m_PeakTimes>>]_vars

\* A local control message (controller 122) has been received while a note
\* was sounding, and the note still sounds.
C16_Witness ==
    /\ lastOp = "msg"
    /\ lastMsg = ControlMessage(0, 122, 0)
    /\ IsUnhandled(lastMsg)
    /\ m_State[0].Notes[0].nVelocity # 0
    /\ m_State[0].Notes[0].nNoteOffTime = 0

\* The step is a call of GetChannelLevels.
QueryStep == nQueries' = nQueries + 1

\* The stored peak of channel c as a query at tick nTicks sees it: held for
\* the peak hold time, then falling linearly, never below 0.
PeakSeenAt(c, nTicks) ==
    LET h == TicksToMillis(TickDiff(nTicks, m_PeakTimes[c]))
    IN IF h < PeakHoldTimeMillis
       THEN m_PeakLevels[c]
       ELSE Clamp(m_PeakLevels[c]
                    - (h - PeakHoldTimeMillis) * (LevelOne \div PeakFalloffTimeMillis),
                  0, LevelOne)

\* C19: in GetChannelLevels, for each channel: when the level is at or above
\* the (possibly decayed) peak, equality included, the stored peak becomes the
\* level and the peak time the tick of the query; when the level is strictly
\* below the decayed peak, the stored peak and the peak time stay (the decay
\* is not written back).  A query never changes notes or controllers.
C19_PeakSnapOrKeep ==
    [][QueryStep =>
          /\ m_State' = m_State
          /\ \A c \in Channels :
                \A p \in {PeakSeenAt(c, clock)} :
                    IF pOutLevels'[c] >= p
                    THEN m_PeakLevels'[c] = pOutLevels'[c] /\ m_PeakTimes'[c] = clock
                    ELSE m_PeakLevels'[c] = m_PeakLevels[c]
                         /\ m_PeakTimes'[c] = m_PeakTimes[c]]_vars

\* A query has met both cases: a silent channel whose level 0 equals its peak
\* 0 has its peak time moved to the tick of the query, and a channel whose
\* level is below its fallen peak keeps the higher stored peak and its time.
C19_Witness ==
    /\ lastOp = "query"
    /\ clock > 0
    /\ \E c \in Channels :
          /\ pOutLevels[c] = 0
          /\ m_PeakLevels[c] = 0
          /\ m_PeakTimes[c] = clock
    /\ \E c \in Channels :
          /\ pOutLevels[c] < pOutPeaks[c]
          /\ pOutPeaks[c] < m_PeakLevels[c]
          /\ m_PeakTimes[c] < clock

\* C20: GetChannelLevels is idempotent at a fixed tick: a call that follows
\* a call at the same tick, with no message between them, returns the same
\* levels and peaks for all 16 channels and leaves the stored peak levels and
\* peak times as the first call left them.
C20_QueryIdempotent ==
    [][(QueryStep /\ lastOp = "query") =>
          /\ pOutLevels' = pOutLevels
          /\ pOutPeaks' = pOutPeaks
          /\ m_PeakLevels' = m_PeakLevels
          /\ m_PeakTimes' = m_PeakTimes]_vars

\* A second call has followed a call at the same tick while a channel was
\* sounding: its level is the peak the first call stored at this tick.
C20_Witness ==
    /\ bRepeatedQuery
    /\ lastOp = "query"
    /\ nQueries >= 2
    /\ clock > 0
    /\ \E c \in Channels :
          /\ pOutLevels[c] > 0
          /\ pOutPeaks[c] = pOutLevels[c]
          /\ m_PeakLevels[c] = pOutLevels[c]
          /\ m_PeakTimes[c] = clock

----------------------------------------------------------------------------
(* Claims on the user interface, continued *)

\* C21: in every reachable state whose overlay state is
\* DisplayingSpinnerMessage, whatever calls of ShowSystemMessage, DisplayImage
\* and Update led to it, the spinner frame index is in 0..13, cell 19 of the
\* buffer holds the glyph of that frame, cell 18 a space and cell 20 the
\* terminator.
C21_SpinnerBufferInvariant ==
    m_UIState = "DisplayingSpinnerMessage" =>
        /\ m_nCurrentSpinnerChar \in 0..13
        /\ m_SystemMessageTextBuffer[19] = SpinnerChars[m_nCurrentSpinnerChar + 1]
        /\ m_SystemMessageTextBuffer[18] = " "
        /\ m_SystemMessageTextBuffer[20] = NUL

\* A spinner message shown after an image has been moved by Updates to frame
\* 3, the first frame whose glyph differs from the glyph of frame 0.
C21_Witness ==
    /\ m_UIState = "DisplayingSpinnerMessage"
    /\ nTriggers = 2
    /\ m_CurrentImage = "Logo"
    /\ lastOp = "update"
    /\ m_nCurrentSpinnerChar = 3
    /\ m_SystemMessageTextBuffer[19] = "-"

\* C22: from the constructed state no sequence of ShowSystemMessage,
\* DisplayImage and Update calls reaches EnteringPowerSavingMode or
\* InPowerSavingMode, and so Update never switches the backlight off.
C22_PowerSavingUnreachable ==
    /\ m_UIState \notin {"EnteringPowerSavingMode", "InPowerSavingMode"}
    /\ bBacklightEnabled

\* A text and an image have been shown and an Update has just timed the last
\* overlay out: the overlay is back at None and the backlight still on.
C22_Witness ==
    /\ lastOp = "update"
    /\ nTriggers = 2
    /\ pLastMessage # <<>>
    /\ m_CurrentImage = "Logo"
    /\ m_UIState = "None"
    /\ m_nStateTime = clock
    /\ clock > 0
    /\ bDrawn = FALSE
    /\ bBacklightEnabled

====
